---- MODULE Spec2Model ----
(***************************************************************************)
(* A model of the WebSocket transport of funcnodes_worker                  *)
(* (src/src/funcnodes_worker/websocket.py): the per-client outbound queue  *)
(* and its sender task (ClientConnection), the periodic loop of the        *)
(* listener (WSLoop: port binding and the sweep of the message store),     *)
(* the side-channel GET endpoint, and WSWorker.sendmessage / send_bytes.   *)
(*                                                                         *)
(* All handlers run on one asyncio event loop: a handler is atomic up to   *)
(* its next real suspension point (an await that waits for I/O), and an    *)
(* action of the model is one such atomic stretch.                         *)
(***************************************************************************)
EXTENDS Integers, Sequences, FiniteSets, TLC

(***************************************************************************)
(* Bounds of the model.                                                    *)
(***************************************************************************)
\* Number of client connections that may ever be accepted.
NConns == 2
\* Capacity of a ClientConnection queue; the code uses maxsize=1000
\* (websocket.py:54), the model a small capacity.
QueueMaxsize == 2
\* Number of sendmessage calls in one behaviour.
MaxCalls == 3
\* The clock advances in steps of TickStep seconds, up to MaxTime.
TickStep == 30
MaxTime == 120
\* send_bytes is called with every payload of 0..MaxPayloadLen bytes over
\* PayloadBytes, and with one payload of LongPayloadLen bytes.
MaxPayloadLen == 4
LongPayloadLen == 10000
\* Number of external worker instances that may ever be constructed.
MaxWorkers == 3
\* Number of items the parent process puts on the receive queue, and number
\* of sendmessage calls of the queue worker.
MaxPuts == 3
\* Number of send_bytes calls in a behaviour.
MaxBytesCalls == 2
MaxSends == 2

(***************************************************************************)
(* Program constants.  STARTPORT, ENDPORT, MESSAGE_SIZE_BEFORE_REQUEST and *)
(* MAX_DATA_SIZE are read from the environment (websocket.py:39-47); the   *)
(* model runs with a configuration of small values.                        *)
(***************************************************************************)
STARTPORT == 9382
ENDPORT == 9385
\* Not a multiple of 11, so that size * 1.1 never equals the threshold and
\* the floating point comparison of line 458 agrees with the exact one.
MESSAGE_SIZE_BEFORE_REQUEST == 3
\* Leaves three bytes of payload per chunk when the header is empty.
MAX_DATA_SIZE == 66
LARGE_MESSAGE_MEMORY_TIMEOUT == 60

Ports == STARTPORT..ENDPORT
Objs == 1..MaxWorkers
Conns == 1..NConns
\* uuid.uuid4(): one id for each sendmessage call and one for send_bytes
Uuids == 1..(MaxCalls + 1)

VARIABLES
    \* ---- time.time()
    now,
    \* ---- WSLoop
    port,            \* WSLoop._port
    site,            \* WSLoop.site: NoSite or a TCPSite object
    runner,          \* WSLoop.runner: "None" or "AppRunner"
    loop_pc,         \* where WSLoop.loop() is suspended
    listening,       \* port the OS has bound for this process, 0 when none
    written_config,  \* port of the config record last written, 0 when none
    tried,           \* ports tried by the current _assert_connection call
    iter_result,     \* how the last iteration of WSLoop.loop ended
    clients,         \* WSLoop.clients
    message_store,   \* WSLoop.message_store
    \* ---- ClientConnection, one per connection
    conn,            \* "none" (not yet accepted), "open", "closed"
    queue,           \* ClientConnection.queue
    send_pc,         \* where process_queue is suspended: "get" or "send"
    cur,             \* the msg local of process_queue
    inflight,        \* number of ws.send_* calls started and not ended
    logged,          \* whether "Error sending message" was logged
    \* ---- history
    offered,         \* per connection: every item passed to enqueue
    accepted,        \* per connection: every item put on the queue
    handed,          \* per connection: every item taken off the queue
    stored_log,      \* per uuid: the text and time given to the store
    next_uuid,       \* uuid.uuid4(): the next fresh id
    ncalls,          \* number of sendmessage calls so far
    resp,            \* the last response of GET /message/{msg_id}
    \* ---- WSWorker.send_bytes, one call
    sb_data,         \* the data argument
    sb_header,       \* the header argument
    chunks,          \* the chunks local of line 435
    sb_result,       \* "none" (not called), "returned" or the exception
    sb_calls,        \* number of send_bytes calls so far
    \* ---- WSLoop.stop, one call
    stop_pc,         \* where stop() is: "idle" (not called), "close",
                     \* "site_stop", "cleanup" (suspended there), "stopped"
    stop_idx,        \* position of the iterator of "for client in self.clients"
    stop_clients,    \* history: self.clients when stop() began
    close_sent,      \* connections on which stop() has called ws.close()
    \* ---- ClientConnection.close(), per connection
    close_result,    \* "none" (not called) or the exception of the call
    \* ---- FuncNodesExternalWorker
    workers,         \* the instances: existence, class id, uuid, owner,
                     \* running flag, _config
    RUNNING_WORKERS, \* class id -> WeakValueDictionary uuid -> instance
    instances_result, \* the last result of running_instances
    update_result,   \* the last update_config call and how it ended
    \* ---- MsQueueWorker and its MsgLoop
    receive_queue,   \* MsQueueWorker.receive_queue
    send_queue,      \* MsQueueWorker.send_queue
    msg_pc,          \* where MsgLoop.loop() is: "sleep" (between two
                     \* iterations), "handle" (awaiting receive_message),
                     \* "blocked" (in get() on an empty queue)
    msg_result,      \* how the last iteration of MsgLoop.loop ended
    msg_logged,      \* number of FUNCNODES_LOGGER.exception(e) of MsgLoop
    put_log,         \* history: every item put on the receive queue
    received,        \* history: every receive_message(message, target)
    \* ---- WSWorker config, WSLoop.change_port
    host,            \* WSLoop._host
    use_ssl,         \* WSLoop._use_ssl
    cp_pc,           \* where change_port() is: "idle" (not running),
                     \* "site_stop", "cleanup" (suspended there)
    cfg_result       \* the last WSWorker.update_config: what was supplied
                     \* and the record returned

vars == <<now, port, site, runner, loop_pc, listening, written_config, tried,
          iter_result, clients, message_store, conn, queue, send_pc, cur,
          inflight, logged, offered, accepted, handed, stored_log,
          next_uuid, ncalls, resp, sb_data, sb_header, chunks, sb_result,
          sb_calls,
          stop_pc, stop_idx, stop_clients, close_sent, close_result,
          workers, RUNNING_WORKERS, instances_result, update_result,
          receive_queue, send_queue, msg_pc, msg_result, msg_logged,
          put_log, received, host, use_ssl, cp_pc, cfg_result>>

loopVars == <<port, site, runner, loop_pc, listening, written_config, tried,
              iter_result>>
connVars == <<conn, clients>>
senderVars == <<send_pc, cur, inflight, logged, handed>>
queueVars == <<queue, offered, accepted>>
storeVars == <<message_store, stored_log, next_uuid>>
bytesVars == <<sb_data, sb_header, chunks, sb_result, sb_calls>>
stopVars == <<stop_pc, stop_idx, stop_clients, close_sent>>
extVars == <<workers, RUNNING_WORKERS, instances_result, update_result>>
msgVars == <<receive_queue, send_queue, msg_pc, msg_result, msg_logged,
             put_log, received>>
cfgVars == <<host, use_ssl, cp_pc, cfg_result>>
wsVars == <<cfgVars, bytesVars, stopVars, close_result, now, loopVars,
            connVars, senderVars, queueVars, storeVars, ncalls, resp>>

(***************************************************************************)
(* Text.  A str is a sequence of Unicode code points; str.encode("utf8")   *)
(* gives one to four bytes per code point.                                 *)
(***************************************************************************)
Utf8Width(cp) ==
    IF cp < 128 THEN 1 ELSE IF cp < 2048 THEN 2 ELSE IF cp < 65536 THEN 3 ELSE 4

RECURSIVE Utf8Len(_)
Utf8Len(msg) ==
    IF msg = <<>> THEN 0 ELSE Utf8Width(Head(msg)) + Utf8Len(Tail(msg))

\* The texts handed to sendmessage: the empty text, "a" (1 byte) and a text
\* of the two code points U+00E9, U+20AC (5 bytes).
Texts == {<<>>, <<97>>, <<233, 8364>>}

(***************************************************************************)
(* Items of a ClientConnection queue.  A plain text and the JSON pointer   *)
(* of a large message are both str objects.                                *)
(***************************************************************************)
NoItem == [kind |-> "none", body |-> <<>>, msg_id |-> 0, port |-> 0]
Str(msg) == [kind |-> "str", body |-> msg, msg_id |-> 0, port |-> 0]
\* json.dumps({"type": "large_message", "url": link, "msg_id": msg_id})
\* with link = http://{host}:{port}/message/{msg_id}
LargeMessagePointer(msg_id, p) ==
    [kind |-> "large_message", body |-> <<>>, msg_id |-> msg_id, port |-> p]

(***************************************************************************)
(* ClientConnection.enqueue: put_nowait, QueueFull caught and logged.      *)
(***************************************************************************)
QueueFull(q) == Len(q) >= QueueMaxsize

EnqueueUnbounded(q, item) == Append(q, item)

Enqueue(q, item) == IF QueueFull(q) THEN q ELSE Append(q, item)

(***************************************************************************)
(* The message store: uuid -> (msg, timestamp).                            *)
(***************************************************************************)
NoEntry == [msg |-> <<>>, timestamp |-> -1]
InStore(store, msg_id) == store[msg_id] # NoEntry

\* sendmessage, line 457-460: len(msg.encode("utf8")) * 1.1 > threshold
IsLargeByChars(msg) == Len(msg) * 11 > MESSAGE_SIZE_BEFORE_REQUEST * 10

IsLarge(msg) == Utf8Len(msg) * 11 > MESSAGE_SIZE_BEFORE_REQUEST * 10

\* line 462: self.ws_loop.message_store[msg_id] = (msg, time.time())
StoreLargeNoTimestamp(store, msg_id, msg, t) ==
    [store EXCEPT ![msg_id] = [msg |-> msg, timestamp |-> 0]]

StoreLarge(store, msg_id, msg, t) ==
    [store EXCEPT ![msg_id] = [msg |-> msg, timestamp |-> t]]

\* WSLoop.clear_old_messages
ExpiredInclusive(entry, t) ==
    t - entry.timestamp >= LARGE_MESSAGE_MEMORY_TIMEOUT

Expired(entry, t) == t - entry.timestamp > LARGE_MESSAGE_MEMORY_TIMEOUT

ClearNothing(store, t) == store

ClearOldMessages(store, t) ==
    [id \in DOMAIN store |->
        IF InStore(store, id) /\ Expired(store[id], t) THEN NoEntry
        ELSE store[id]]

\* WSLoop._handle_get_message: the response, and the store it leaves
NoResp == [id |-> 0, status |-> 0, text |-> <<>>]
NotFoundText == <<0>>

GetMessageResponse(store, msg_id) ==
    IF InStore(store, msg_id)
    THEN [id |-> msg_id, status |-> 200, text |-> store[msg_id].msg]
    ELSE [id |-> msg_id, status |-> 404, text |-> NotFoundText]

StoreAfterGetPop(store, msg_id) == [store EXCEPT ![msg_id] = NoEntry]

StoreAfterGet(store, msg_id) == store

(***************************************************************************)
(* FuncNodesExternalWorker: the instances, their config and the registry   *)
(* RUNNING_WORKERS.  An instance is an object of the heap; the class ids   *)
(* (NODECLASSID) and the uuids are the caller's.  A config has the fields  *)
(* of config_cls, here two; a field is valid or not (the value Invalid     *)
(* fails the validation of the pydantic model).                            *)
(***************************************************************************)
ClassIds == {"X", "Y"}
WorkerIds == {"w1", "w2"}
Fields == {"a", "b"}
Invalid == 2
FieldValues == {0, 1, Invalid}
Unset == -1

\* self._config = self.config_cls()
DefaultConfig == [f \in Fields |-> 0]

NoWorker ==
    [state |-> "none", cls |-> "", uuid |-> "", owned |-> FALSE,
     running |-> FALSE, config |-> DefaultConfig, stop_log |-> <<>>]
NoDict == [present |-> FALSE, data |-> [u \in WorkerIds |-> 0]]
NoInstances == [cls |-> "", res |-> {}]
NoUpdate ==
    [obj |-> 0, before |-> DefaultConfig,
     supplied |-> [f \in Fields |-> Unset], result |-> "none",
     raised |-> FALSE]

\* The config argument of update_config: None, or a dict with a value for
\* some of the fields (Unset: the key is not in the dict).
ConfigArgs ==
    {[none |-> TRUE, dict |-> [f \in Fields |-> Unset]]}
        \cup {[none |-> FALSE, dict |-> d] :
                 d \in [Fields -> FieldValues \cup {Unset}]}

\* {**self._config.model_dump(), **preconfig}
Merge(config, dict) ==
    [f \in Fields |-> IF dict[f] # Unset THEN dict[f] ELSE config[f]]

\* self.config_cls(**merged) raises ValidationError or not
Valid(config) == \A f \in Fields : config[f] # Invalid

\* update_config, line 60-69: the _config it leaves and how it ends
UpdateConfigOutcome(config, arg, hook_fails) ==
    IF arg.none THEN [config |-> config, result |-> "None"]
    ELSE IF ~Valid(Merge(config, arg.dict))
    THEN [config |-> config, result |-> "ValidationError"]
    ELSE IF hook_fails
    THEN [config |-> Merge(config, arg.dict), result |-> "HookError"]
    ELSE [config |-> Merge(config, arg.dict), result |-> "ok"]

\* whether update_config ends with an exception
Raises(result) == result \in {"ValidationError", "HookError"}

\* ins.running
IsRunningAlways(w) == TRUE

IsRunning(w) == w.running

\* the values() of a WeakValueDictionary: the referents that still exist
Values(dict) == {dict.data[u] : u \in WorkerIds} \ {0}

\* running_instances, line 99-119
RunningInstances(cls) ==
    IF ~RUNNING_WORKERS[cls].present THEN {}
    ELSE {o \in Values(RUNNING_WORKERS[cls]) : IsRunning(workers[o])}

\* whether the registry holds a strong reference to the instance: it does
\* not, its values are weak references
HeldByStrongRegistry(o) ==
    \E cls \in ClassIds : o \in Values(RUNNING_WORKERS[cls])

HeldByRegistry(o) == FALSE

(***************************************************************************)
(* The config record of a WSWorker: host, port, ssl and the rest (uuid).   *)
(* A partial config has a value for some of the keys (has: its keys).      *)
(***************************************************************************)
\* os.environ.get("FUNCNODES_HOST", "localhost")
DefaultHost == "localhost"
Hosts == {DefaultHost, "0.0.0.0"}
ConfigKeys == {"host", "port", "ssl"}
SuppliedConfigs ==
    [has : {{}, {"host"}, {"port", "ssl"}, ConfigKeys},
     host : {"example.org"}, port : {1}, ssl : {TRUE}]
\* no update_config call yet: the record is the one of the construction
NoConfigResult ==
    [called |-> FALSE,
     supplied |-> [has |-> {}, host |-> "example.org", port |-> 1,
                   ssl |-> TRUE],
     record |-> [host |-> DefaultHost, port |-> STARTPORT, ssl |-> FALSE]]

\* super().update_config(config): the partial record merged into the
\* previous one, field by field
BaseUpdateConfig(previous, config) ==
    [k \in ConfigKeys |->
        IF k \in config.has THEN config[k] ELSE previous[k]]

\* hasattr(self, "ws_loop"): the loop exists from the end of __init__
HasWSLoopNever == FALSE

HasWSLoop == TRUE

(***************************************************************************)
(* Initial state: a constructed WSWorker (host and port from its           *)
(* arguments or config), no listener yet, no client, an empty store.       *)
(***************************************************************************)
NoSite == [port |-> 0, started |-> FALSE]

Init ==
    /\ now = 0
    /\ port = STARTPORT
    /\ site = NoSite
    /\ runner = "None"
    /\ loop_pc = "sleep"
    /\ listening = 0
    /\ written_config = 0
    /\ tried = {}
    /\ iter_result = "none"
    /\ clients = <<>>
    /\ message_store = [id \in Uuids |-> NoEntry]
    /\ conn = [c \in Conns |-> "none"]
    /\ queue = [c \in Conns |-> <<>>]
    /\ send_pc = [c \in Conns |-> "get"]
    /\ cur = [c \in Conns |-> NoItem]
    /\ inflight = [c \in Conns |-> 0]
    /\ logged = [c \in Conns |-> FALSE]
    /\ offered = [c \in Conns |-> <<>>]
    /\ accepted = [c \in Conns |-> <<>>]
    /\ handed = [c \in Conns |-> <<>>]
    /\ stored_log = [id \in Uuids |-> NoEntry]
    /\ next_uuid = 1
    /\ ncalls = 0
    /\ resp = NoResp
    /\ sb_data = <<>>
    /\ sb_header = <<>>
    /\ chunks = <<>>
    /\ sb_result = "none"
    /\ sb_calls = 0
    /\ stop_pc = "idle"
    /\ stop_idx = 0
    /\ stop_clients = <<>>
    /\ close_sent = {}
    /\ close_result = [c \in Conns |-> "none"]
    /\ workers = [o \in Objs |-> NoWorker]
    /\ RUNNING_WORKERS = [cls \in ClassIds |-> NoDict]
    /\ instances_result = NoInstances
    /\ update_result = NoUpdate
    /\ receive_queue = <<>>
    /\ send_queue = <<>>
    /\ msg_pc = "sleep"
    /\ msg_result = "none"
    /\ msg_logged = 0
    /\ put_log = <<>>
    /\ received = <<>>
    /\ host = DefaultHost
    /\ use_ssl = FALSE
    /\ cp_pc = "idle"
    /\ cfg_result = NoConfigResult

(***************************************************************************)
(* The clock.                                                              *)
(***************************************************************************)
Tick ==
    /\ now + TickStep <= MaxTime
    /\ now' = now + TickStep
    /\ UNCHANGED <<cfgVars, msgVars, extVars, bytesVars, stopVars, close_result,
                   loopVars, connVars, senderVars, queueVars, storeVars,
                   ncalls, resp>>

(***************************************************************************)
(* WSLoop.loop: _assert_connection, then clear_old_messages.               *)
(* _assert_connection suspends at runner.setup() and at site.start();      *)
(* clear_old_messages never suspends.                                      *)
(***************************************************************************)
\* site is set: _assert_connection returns at once, the sweep runs.
LoopIteration ==
    /\ loop_pc = "sleep"
    /\ site # NoSite
    /\ tried' = {}
    /\ iter_result' = "ok"
    /\ message_store' = ClearOldMessages(message_store, now)
    /\ UNCHANGED <<cfgVars, msgVars, extVars, bytesVars, stopVars, close_result,
                   now, port, site, runner, loop_pc, listening,
                   written_config, connVars, senderVars, queueVars,
                   stored_log, next_uuid, ncalls, resp>>

\* site is None: enter the while loop, create the runner, await its setup.
AssertConnectionBegin ==
    /\ loop_pc = "sleep"
    /\ site = NoSite
    /\ runner' = "AppRunner"
    /\ loop_pc' = "setup"
    /\ tried' = {}
    /\ iter_result' = "running"
    /\ UNCHANGED <<cfgVars, msgVars, extVars, bytesVars, stopVars, close_result,
                   now, port, site, listening, written_config, connVars,
                   senderVars, queueVars, storeVars, ncalls, resp>>

\* runner.setup() is done: self.site = TCPSite(...), await self.site.start().
AssertConnectionSite ==
    /\ loop_pc = "setup"
    /\ site' = [port |-> port, started |-> FALSE]
    /\ tried' = tried \cup {port}
    /\ loop_pc' = "start"
    /\ UNCHANGED <<cfgVars, msgVars, extVars, bytesVars, stopVars, close_result,
                   now, port, runner, listening, written_config, iter_result,
                   connVars, senderVars, queueVars, storeVars, ncalls, resp>>

\* WSWorker.update_config: d["port"] = self.ws_loop._port, over the default
\* port=STARTPORT of the record
ConfigPortDefault == STARTPORT

ConfigPort == port

\* site.start() succeeds: write_config, return; the sweep follows without
\* another suspension.
AssertConnectionBound ==
    /\ loop_pc = "start"
    /\ site' = [site EXCEPT !.started = TRUE]
    /\ listening' = site.port
    /\ written_config' = ConfigPort
    /\ message_store' = ClearOldMessages(message_store, now)
    /\ loop_pc' = "sleep"
    /\ iter_result' = "ok"
    /\ UNCHANGED <<cfgVars, msgVars, extVars, bytesVars, stopVars, close_result,
                   now, port, runner, tried, connVars, senderVars, queueVars,
                   stored_log, next_uuid, ncalls, resp>>

\* site.start() raises OSError and the next port is inside the range: the
\* while loop goes round, with a new runner.
AssertConnectionRetry ==
    /\ loop_pc = "start"
    /\ port + 1 <= ENDPORT
    /\ port' = port + 1
    /\ runner' = "AppRunner"
    /\ loop_pc' = "setup"
    /\ UNCHANGED <<cfgVars, msgVars, extVars, bytesVars, stopVars, close_result,
                   now, site, listening, written_config, tried, iter_result,
                   connVars, senderVars, queueVars, storeVars, ncalls, resp>>

\* site.start() raises OSError and the next port is past ENDPORT: the port
\* is reset to STARTPORT and "No free ports available" is raised out of
\* loop(); the sweep of this iteration is skipped.
AssertConnectionExhausted ==
    /\ loop_pc = "start"
    /\ port + 1 > ENDPORT
    /\ port' = STARTPORT
    /\ loop_pc' = "sleep"
    /\ iter_result' = "No free ports available"
    /\ UNCHANGED <<cfgVars, msgVars, extVars, bytesVars, stopVars, close_result,
                   now, site, runner, listening, written_config, tried,
                   connVars, senderVars, queueVars, storeVars, ncalls, resp>>

(***************************************************************************)
(* WSLoop._handle_connection: a client is in clients from the end of the   *)
(* handshake to the end of its handler.  Connections are numbered in the   *)
(* order in which they are accepted.                                       *)
(***************************************************************************)
RemoveNothing(s, x) == s

\* self.clients.remove(client_connection)
Remove(s, x) == SelectSeq(s, LAMBDA y : y # x)

Connect(c) ==
    /\ listening # 0
    /\ conn[c] = "none"
    /\ \A d \in Conns : d < c => conn[d] # "none"
    /\ conn' = [conn EXCEPT ![c] = "open"]
    /\ clients' = Append(clients, c)
    /\ UNCHANGED <<cfgVars, msgVars, extVars, bytesVars, stopVars, close_result,
                   now, loopVars, message_store, senderVars, queueVars,
                   stored_log, next_uuid, ncalls, resp>>

Disconnect(c) ==
    /\ conn[c] = "open"
    /\ conn' = [conn EXCEPT ![c] = "closed"]
    /\ clients' = Remove(clients, c)
    /\ UNCHANGED <<cfgVars, msgVars, extVars, bytesVars, stopVars, close_result,
                   now, loopVars, message_store, senderVars, queueVars,
                   stored_log, next_uuid, ncalls, resp>>

(***************************************************************************)
(* WSWorker.sendmessage(msg, client_connection); cc = 0 stands for None.   *)
(* enqueue never suspends, so the whole call is one step.                  *)
(***************************************************************************)
Range(s) == {s[i] : i \in DOMAIN s}

\* line 471-482 and 441-448: the recipient, or every client of the list
RecipientsAll(cc) == Range(clients)

Recipients(cc) == IF cc # 0 THEN {cc} ELSE Range(clients)

\* The wrapped message of line 461-468, or the message itself.
MsgToSendVerbatim(msg, msg_id) == Str(msg)

MsgToSend(msg, msg_id) ==
    IF IsLarge(msg) THEN LargeMessagePointer(msg_id, port) ELSE Str(msg)

EnqueueAll(to, item) ==
    /\ queue' = [c \in Conns |->
                    IF c \in to THEN Enqueue(queue[c], item) ELSE queue[c]]
    /\ offered' = [c \in Conns |->
                    IF c \in to THEN Append(offered[c], item) ELSE offered[c]]
    /\ accepted' = [c \in Conns |->
                    IF Len(queue'[c]) > Len(queue[c])
                    THEN Append(accepted[c], queue'[c][Len(queue'[c])])
                    ELSE accepted[c]]

SendMessage(msg, cc) ==
    /\ ncalls < MaxCalls
    /\ cc # 0 => conn[cc] # "none"
    /\ ncalls' = ncalls + 1
    /\ IF msg = <<>>
       THEN UNCHANGED <<queueVars, storeVars>>
       ELSE /\ IF IsLarge(msg)
               THEN /\ message_store' =
                          StoreLarge(message_store, next_uuid, msg, now)
                    /\ stored_log' = [stored_log EXCEPT ![next_uuid] =
                                        [msg |-> msg, timestamp |-> now]]
                    /\ next_uuid' = next_uuid + 1
               ELSE UNCHANGED storeVars
            /\ EnqueueAll(Recipients(cc), MsgToSend(msg, next_uuid))
    /\ UNCHANGED <<cfgVars, msgVars, extVars, bytesVars, stopVars, close_result,
                   now, loopVars, connVars, senderVars, resp>>

(***************************************************************************)
(* WSWorker.send_bytes(data, header, client_connection).  bytes are        *)
(* sequences of 0..255, str are sequences of code points; a header is the  *)
(* sequence of the (key, value) items of the dict, both str.               *)
(***************************************************************************)
\* str.encode("utf-8")
Utf8Encode(cp) ==
    IF cp < 128 THEN <<cp>>
    ELSE IF cp < 2048 THEN <<192 + (cp \div 64), 128 + (cp % 64)>>
    ELSE IF cp < 65536
         THEN <<224 + (cp \div 4096), 128 + ((cp \div 64) % 64),
                128 + (cp % 64)>>
         ELSE <<240 + (cp \div 262144), 128 + ((cp \div 4096) % 64),
                128 + ((cp \div 64) % 64), 128 + (cp % 64)>>

RECURSIVE Encode(_)
Encode(str) ==
    IF str = <<>> THEN <<>> ELSE Utf8Encode(Head(str)) \o Encode(Tail(str))

\* format of an int: its decimal digits, as many as it takes
RECURSIVE DecStr(_)
DecStr(n) ==
    IF n < 10 THEN <<48 + n>> ELSE DecStr(n \div 10) \o <<48 + (n % 10)>>

\* str(uuid.uuid4()): 36 characters, 8-4-4-4-12 hexadecimal digits
Uuid4Str(n) ==
    [i \in 1..36 |->
        IF i \in {9, 14, 19, 24} THEN 45
        ELSE IF i = 15 THEN 52
        ELSE IF i = 36 THEN 48 + n
        ELSE 48]

\* chunkheader.format(number=, total=).encode("utf-8"), line 419 and 436:
\* "chunk={number}/{total};msgid=" + msgid + ";"
ChunkHeader(number, total, msgid) ==
    Encode(<<99, 104, 117, 110, 107, 61>> \o DecStr(number) \o <<47>>
           \o DecStr(total) \o <<59, 109, 115, 103, 105, 100, 61>>
           \o msgid \o <<59>>)

\* "; ".join([f"{key}={value}" for key, value in header.items()])
RECURSIVE JoinHeader(_)
JoinHeader(header) ==
    IF header = <<>> THEN <<>>
    ELSE Head(header)[1] \o <<61>> \o Head(header)[2]
         \o (IF Len(header) = 1 THEN <<>>
             ELSE <<59, 32>> \o JoinHeader(Tail(header)))

\* line 421-426
HeaderBytes(header) == Encode(JoinHeader(header)) \o <<13, 10, 13, 10>>

\* line 428-430
AvailableDatasize(header, msgid) ==
    MAX_DATA_SIZE - Len(HeaderBytes(header) \o ChunkHeader(9999, 9999, msgid))

\* data[i : i + n]
SliceInclusive(data, i, n) ==
    SubSeq(data, i + 1, IF i + n + 1 < Len(data) THEN i + n + 1 ELSE Len(data))

Slice(data, i, n) ==
    SubSeq(data, i + 1, IF i + n < Len(data) THEN i + n ELSE Len(data))

\* line 433-440; enumerate(range(0, len(data), available_datasize)) has
\* ceil(len(data) / available_datasize) elements
SendBytesChunks(data, header, msgid) ==
    LET available_datasize == AvailableDatasize(header, msgid)
        headerbytes == HeaderBytes(header)
        nchunks == (Len(data) + available_datasize - 1)
                       \div available_datasize
    IN [k \in 1..((Len(data) + available_datasize - 1)
                       \div available_datasize) |->
           ChunkHeader(k, nchunks, msgid) \o headerbytes
               \o Slice(data, (k - 1) * available_datasize,
                        available_datasize)]

Bytes(chunk) == [kind |-> "bytes", body |-> chunk, msg_id |-> 0, port |-> 0]

RECURSIVE EnqueueEachReversed(_, _, _)
EnqueueEachReversed(q, items, i) ==
    IF i > Len(items) \/ QueueFull(q) THEN q
    ELSE EnqueueEachReversed(
             Enqueue(q, [kind |-> "bytes", body |-> items[Len(items) + 1 - i],
                         msg_id |-> 0, port |-> 0]),
             items, i + 1)

\* for chunk in chunks: await client_conn.enqueue(chunk); once the queue is
\* full every further enqueue leaves it as it is
RECURSIVE EnqueueEach(_, _, _)
EnqueueEach(q, items, i) ==
    IF i > Len(items) \/ QueueFull(q) THEN q
    ELSE EnqueueEach(Enqueue(q, Bytes(items[i])), items, i + 1)

EnqueueChunks(to, items) ==
    /\ queue' = [c \in Conns |->
                    IF c \in to THEN EnqueueEach(queue[c], items, 1)
                    ELSE queue[c]]
    /\ offered' = [c \in Conns |->
                    IF c \in to
                    THEN offered[c] \o [i \in 1..Len(items) |-> Bytes(items[i])]
                    ELSE offered[c]]
    /\ accepted' = [c \in Conns |->
                    accepted[c]
                        \o SubSeq(queue'[c], Len(queue[c]) + 1, Len(queue'[c]))]

\* The payloads and headers of the calls.
PayloadBytes == {13, 10, 120}
Payloads ==
    UNION {[1..n -> PayloadBytes] : n \in 0..MaxPayloadLen}
        \cup {[i \in 1..LongPayloadLen |-> 120]}

\* {}, {"": ""}, {"a": ""}, {"é": ""}, {"a": "", "b": ""}
Headers ==
    {<<>>, <<<< <<>>, <<>> >>>>, <<<< <<97>>, <<>> >>>>,
     <<<< <<233>>, <<>> >>>>, <<<< <<97>>, <<>> >>, << <<98>>, <<>> >>>>}

\* A call of send_bytes; none of its steps suspends.
SendBytesCall(data, header, cc) ==
    /\ cc # 0 => conn[cc] # "none"
    /\ sb_calls' = sb_calls + 1
    /\ sb_data' = data
    /\ sb_header' = header
    /\ IF data = <<>>
       THEN /\ sb_result' = "returned"
            /\ UNCHANGED <<chunks, next_uuid, queueVars>>
       ELSE /\ next_uuid' = next_uuid + 1
            /\ IF AvailableDatasize(header, Uuid4Str(next_uuid)) <= 0
               THEN /\ sb_result' = "Header too large"
                    /\ UNCHANGED <<chunks, queueVars>>
               ELSE /\ sb_result' = "returned"
                    /\ chunks' =
                          SendBytesChunks(data, header, Uuid4Str(next_uuid))
                    /\ EnqueueChunks(Recipients(cc), chunks')
    /\ UNCHANGED <<cfgVars, msgVars, extVars,
                   stopVars, close_result, now, loopVars, connVars,
                   senderVars, message_store, stored_log, ncalls, resp>>

\* The first call in a behaviour.
SendBytes(data, header, cc) ==
    /\ sb_result = "none"
    /\ SendBytesCall(data, header, cc)

\* A further call, as long as the ids left suffice for the sendmessage
\* calls still to come; sb_data, sb_header, chunks and sb_result are those
\* of the last call.
SendBytesAgain(data, header, cc) ==
    /\ sb_result # "none"
    /\ sb_calls < MaxBytesCalls
    /\ next_uuid <= ncalls + 1
    /\ SendBytesCall(data, header, cc)

(***************************************************************************)
(* ClientConnection.process_queue, the sender task of one connection.      *)
(***************************************************************************)
\* asyncio.Queue.get: the oldest item
QueueGetNewest(q) ==
    [item |-> q[Len(q)], rest |-> SubSeq(q, 1, Len(q) - 1)]

QueueGet(q) == [item |-> Head(q), rest |-> Tail(q)]

\* where the task goes after "except Exception" (line 68-71)
AfterSendErrorDies == "dead"

AfterSendError == "get"

SenderGet(c) ==
    /\ conn[c] # "none"
    /\ send_pc[c] = "get"
    /\ queue[c] # <<>>
    /\ LET g == QueueGet(queue[c])
       IN /\ cur' = [cur EXCEPT ![c] = g.item]
          /\ queue' = [queue EXCEPT ![c] = g.rest]
          /\ handed' = [handed EXCEPT ![c] = Append(@, g.item)]
    /\ send_pc' = [send_pc EXCEPT ![c] = "send"]
    /\ inflight' = [inflight EXCEPT ![c] = @ + 1]
    /\ UNCHANGED <<cfgVars, msgVars, extVars, bytesVars, stopVars, close_result,
                   now, loopVars, connVars, logged, offered, accepted,
                   storeVars, ncalls, resp>>

\* ws.send_str / ws.send_bytes returns within the timeout; task_done.
SendOk(c) ==
    /\ send_pc[c] = "send"
    /\ conn[c] = "open"
    /\ send_pc' = [send_pc EXCEPT ![c] = "get"]
    /\ cur' = [cur EXCEPT ![c] = NoItem]
    /\ inflight' = [inflight EXCEPT ![c] = @ - 1]
    /\ UNCHANGED <<cfgVars, msgVars, extVars, bytesVars, stopVars, close_result,
                   now, loopVars, connVars, logged, handed, queueVars,
                   storeVars, ncalls, resp>>

\* ws.send_* raises (a closed or broken peer): logged; task_done.
SendRaises(c) ==
    /\ send_pc[c] = "send"
    /\ send_pc' = [send_pc EXCEPT ![c] = AfterSendError]
    /\ cur' = [cur EXCEPT ![c] = NoItem]
    /\ inflight' = [inflight EXCEPT ![c] = @ - 1]
    /\ logged' = [logged EXCEPT ![c] = TRUE]
    /\ UNCHANGED <<cfgVars, msgVars, extVars, bytesVars, stopVars, close_result,
                   now, loopVars, connVars, handed, queueVars, storeVars,
                   ncalls, resp>>

\* asyncio.wait_for cancels the send after 2 s and raises TimeoutError:
\* logged; task_done.
SendTimesOut(c) ==
    /\ send_pc[c] = "send"
    /\ send_pc' = [send_pc EXCEPT ![c] = AfterSendError]
    /\ cur' = [cur EXCEPT ![c] = NoItem]
    /\ inflight' = [inflight EXCEPT ![c] = @ - 1]
    /\ logged' = [logged EXCEPT ![c] = TRUE]
    /\ UNCHANGED <<cfgVars, msgVars, extVars, bytesVars, stopVars, close_result,
                   now, loopVars, connVars, handed, queueVars, storeVars,
                   ncalls, resp>>

(***************************************************************************)
(* WSLoop._handle_get_message, GET /message/{msg_id}.                      *)
(***************************************************************************)
HandleGetMessage(msg_id) ==
    /\ listening # 0
    /\ resp' = GetMessageResponse(message_store, msg_id)
    /\ message_store' = StoreAfterGet(message_store, msg_id)
    /\ UNCHANGED <<cfgVars, msgVars, extVars, bytesVars, stopVars, close_result,
                   now, loopVars, connVars, senderVars, queueVars,
                   stored_log, next_uuid, ncalls>>

(***************************************************************************)
(* WSLoop.stop, called once, while the task of the loop sleeps between two *)
(* iterations.  It suspends at every ws.close(), at site.stop() and at     *)
(* runner.cleanup(); the handlers of the clients, sendmessage and the      *)
(* iterations of the loop run in between.  super().stop() (CustomLoop, not *)
(* in this repository's src/) is taken to mark the loop stopped and to     *)
(* cancel its task, without another suspension.                            *)
(***************************************************************************)
EmptyStore == [id \in Uuids |-> NoEntry]

\* "for client in self.clients" from position idx of the list iterator up
\* to the next await: the close of the next client, or the end of the list
\* and message_store.clear(), then the first of site.stop(),
\* runner.cleanup() and super().stop() that applies.
StopContinue(idx) ==
    IF idx < Len(clients)
    THEN /\ close_sent' = close_sent \cup {clients[idx + 1]}
         /\ stop_idx' = idx + 1
         /\ stop_pc' = "close"
         /\ UNCHANGED message_store
    ELSE /\ message_store' = EmptyStore
         /\ stop_pc' = IF site # NoSite THEN "site_stop"
                       ELSE IF runner # "None" THEN "cleanup"
                       ELSE "stopped"
         /\ UNCHANGED <<stop_idx, close_sent>>

\* the task of the loop once stop() is at pc
LoopTask(pc) == IF pc = "stopped" THEN "cancelled" ELSE loop_pc

StopBegin ==
    /\ stop_pc = "idle"
    /\ loop_pc = "sleep"
    /\ stop_clients' = clients
    /\ StopContinue(0)
    /\ loop_pc' = LoopTask(stop_pc')
    /\ UNCHANGED <<cfgVars, msgVars, extVars,
                   bytesVars, close_result, now, port, site, runner,
                   listening, written_config, tried, iter_result, connVars,
                   senderVars, queueVars, stored_log, next_uuid, ncalls,
                   resp>>

\* ws.close() of the client at hand has returned
StopCloseDone ==
    /\ stop_pc = "close"
    /\ StopContinue(stop_idx)
    /\ loop_pc' = LoopTask(stop_pc')
    /\ UNCHANGED <<cfgVars, msgVars, extVars,
                   bytesVars, close_result, stop_clients, now, port, site,
                   runner, listening, written_config, tried, iter_result,
                   connVars, senderVars, queueVars, stored_log, next_uuid,
                   ncalls, resp>>

\* site.stop() has returned: self.site = None
StopSiteStopped ==
    /\ stop_pc = "site_stop"
    /\ site' = NoSite
    /\ listening' = 0
    /\ stop_pc' = IF runner # "None" THEN "cleanup" ELSE "stopped"
    /\ loop_pc' = LoopTask(stop_pc')
    /\ UNCHANGED <<cfgVars, msgVars, extVars,
                   bytesVars, close_result, stop_idx, stop_clients,
                   close_sent, now, port, runner, written_config,
                   tried, iter_result, connVars, senderVars, queueVars,
                   storeVars, ncalls, resp>>

\* runner.cleanup() has returned: self.runner = None, super().stop()
StopRunnerCleaned ==
    /\ stop_pc = "cleanup"
    /\ runner' = "None"
    /\ stop_pc' = "stopped"
    /\ loop_pc' = LoopTask(stop_pc')
    /\ UNCHANGED <<cfgVars, msgVars, extVars,
                   bytesVars, close_result, stop_idx, stop_clients,
                   close_sent, now, port, site, listening,
                   written_config, tried, iter_result, connVars, senderVars,
                   queueVars, storeVars, ncalls, resp>>

(***************************************************************************)
(* client.close() on a ClientConnection: the class defines __init__,       *)
(* process_queue and enqueue and nothing else, so the attribute lookup     *)
(* raises AttributeError and nothing is changed.                           *)
(***************************************************************************)
Close(c) ==
    /\ conn[c] # "none"
    /\ close_result[c] = "none"
    /\ close_result' = [close_result EXCEPT ![c] = "AttributeError"]
    /\ UNCHANGED <<cfgVars, msgVars, extVars,
                   bytesVars, stopVars, now, loopVars, connVars, senderVars,
                   queueVars, storeVars, ncalls, resp>>

(***************************************************************************)
(* FuncNodesExternalWorker.__init__(workerid, config): the next object of  *)
(* the heap; update_config in try/except Exception: pass, so that nothing  *)
(* it raises leaves the constructor; registration under NODECLASSID        *)
(* and uuid, over whatever was registered there.  The caller owns the new  *)
(* instance; CustomLoop.__init__ (loop.py, not in this repository's src/)  *)
(* is taken to leave it not running.                                       *)
(***************************************************************************)
Construct(cls, workerid, arg, hook_fails) ==
    \E o \in Objs :
        /\ workers[o].state = "none"
        /\ \A p \in Objs : p < o => workers[p].state # "none"
        /\ LET u == UpdateConfigOutcome(DefaultConfig, arg, hook_fails)
           IN /\ workers' = [workers EXCEPT ![o] =
                     [state |-> "alive", cls |-> cls, uuid |-> workerid,
                      owned |-> TRUE, running |-> FALSE,
                      config |-> u.config, stop_log |-> <<>>]]
              /\ update_result' =
                     [obj |-> o, before |-> DefaultConfig,
                      supplied |-> arg.dict, result |-> u.result,
                      raised |-> FALSE]
        /\ RUNNING_WORKERS' = [RUNNING_WORKERS EXCEPT ![cls] =
               [present |-> TRUE, data |-> [@.data EXCEPT ![workerid] = o]]]
        /\ UNCHANGED <<instances_result, msgVars,
                   wsVars>>

\* update_config(config) on an instance some owner holds; what it raises
\* reaches the caller
UpdateConfig(o, arg, hook_fails) ==
    /\ workers[o].state = "alive"
    /\ workers[o].owned
    /\ LET u == UpdateConfigOutcome(workers[o].config, arg, hook_fails)
       IN /\ workers' = [workers EXCEPT ![o].config = u.config]
          /\ update_result' =
                 [obj |-> o, before |-> workers[o].config,
                  supplied |-> arg.dict, result |-> u.result,
                  raised |-> Raises(u.result)]
    /\ UNCHANGED <<RUNNING_WORKERS, instances_result, msgVars,
                   wsVars>>

\* The loop of the instance is started (CustomLoop, loop.py): running.
Start(o) ==
    /\ workers[o].state = "alive"
    /\ workers[o].owned
    /\ ~workers[o].running
    /\ workers' = [workers EXCEPT ![o].running = TRUE,
                                  ![o].stop_log = <<>>]
    /\ UNCHANGED <<RUNNING_WORKERS, instances_result, update_result, msgVars,
                   wsVars>>

\* The statements of FuncNodesExternalWorker.stop, in the order of the
\* code: self.emit("stopping"), self.cleanup(), await super().stop()
StopStatementsBaseFirst == <<"stop", "stopping", "cleanup">>

StopStatements == <<"stopping", "cleanup", "stop">>

\* How many of them are executed when the listeners of the event, or
\* cleanup, raise, and when nothing raises.
StopExecuted(raises) ==
    CASE raises = "emit" -> 1
      [] raises = "cleanup" -> 2
      [] OTHER -> 3

\* FuncNodesExternalWorker.stop; stop_log is what the stop calls of the
\* current run of the instance have executed last.
\* The base stop (CustomLoop.stop, loop.py) clears the running flag.
Stop(o, raises) ==
    /\ workers[o].state = "alive"
    /\ workers[o].owned
    /\ workers[o].running
    /\ LET log == SubSeq(StopStatements, 1, StopExecuted(raises))
       IN workers' = [workers EXCEPT
              ![o].stop_log = log,
              ![o].running =
                  IF \E i \in DOMAIN log : log[i] = "stop" THEN FALSE
                  ELSE workers[o].running]
    /\ UNCHANGED <<RUNNING_WORKERS, instances_result, update_result, msgVars,
                   wsVars>>

\* The last strong reference to the instance outside the registry goes.
Release(o) ==
    /\ workers[o].state = "alive"
    /\ workers[o].owned
    /\ workers' = [workers EXCEPT ![o].owned = FALSE]
    /\ UNCHANGED <<RUNNING_WORKERS, instances_result, update_result, msgVars,
                   wsVars>>

\* The instance is reclaimed; the callback of its weak reference removes
\* the entry of the registry, if that entry still refers to it.
Collect(o) ==
    /\ workers[o].state = "alive"
    /\ ~workers[o].owned
    /\ ~HeldByRegistry(o)
    /\ workers' = [workers EXCEPT ![o].state = "collected",
                                  ![o].running = FALSE,
                                  ![o].stop_log = <<>>]
    /\ RUNNING_WORKERS' =
           [cls \in ClassIds |->
               [RUNNING_WORKERS[cls] EXCEPT !.data =
                   [u \in WorkerIds |-> IF @[u] = o THEN 0 ELSE @[u]]]]
    /\ UNCHANGED <<instances_result, update_result, msgVars,
                   wsVars>>

\* cls.running_instances()
QueryRunningInstances(cls) ==
    /\ instances_result' = [cls |-> cls, res |-> RunningInstances(cls)]
    /\ UNCHANGED <<workers, RUNNING_WORKERS, update_result, msgVars,
                   wsVars>>

(***************************************************************************)
(* WSLoop.change_port(port); p = 0 stands for None.  It suspends at        *)
(* site.stop() and at runner.cleanup().                                    *)
(***************************************************************************)
\* the port given, or the next one, wrapping to STARTPORT
ChangedPort(p) ==
    IF p # 0 THEN p
    ELSE IF port + 1 > ENDPORT THEN STARTPORT ELSE port + 1

ChangePortBegin(p) ==
    /\ cp_pc = "idle"
    /\ port' = ChangedPort(p)
    /\ cp_pc' = IF site # NoSite THEN "site_stop"
                ELSE IF runner # "None" THEN "cleanup" ELSE "idle"
    /\ UNCHANGED <<host, use_ssl, cfg_result, msgVars, extVars, bytesVars,
                   stopVars, close_result, now, site, runner, loop_pc,
                   listening, written_config, tried, iter_result, connVars,
                   senderVars, queueVars, storeVars, ncalls, resp>>

\* site.stop() is done: self.site = None
ChangePortSiteStopped ==
    /\ cp_pc = "site_stop"
    /\ site' = NoSite
    /\ listening' = 0
    /\ cp_pc' = IF runner # "None" THEN "cleanup" ELSE "idle"
    /\ UNCHANGED <<host, use_ssl, cfg_result, msgVars, extVars, bytesVars,
                   stopVars, close_result, now, port, runner, loop_pc,
                   written_config, tried, iter_result, connVars,
                   senderVars, queueVars, storeVars, ncalls, resp>>

\* runner.cleanup() is done: self.runner = None
ChangePortRunnerCleaned ==
    /\ cp_pc = "cleanup"
    /\ runner' = "None"
    /\ cp_pc' = "idle"
    /\ UNCHANGED <<host, use_ssl, cfg_result, msgVars, extVars, bytesVars,
                   stopVars, close_result, now, port, site, loop_pc,
                   listening, written_config, tried, iter_result, connVars,
                   senderVars, queueVars, storeVars, ncalls, resp>>

(***************************************************************************)
(* WSWorker.update_config(config): the record of the base class, the       *)
(* defaults of host, port and ssl over it, and the values of the loop over *)
(* these when the loop exists.  WSWorker.host and WSWorker.port.           *)
(***************************************************************************)
UpdateConfigRecord(previous, config) ==
    LET base == BaseUpdateConfig(previous, config)
        defaults == [host |-> DefaultHost, port |-> STARTPORT, ssl |-> FALSE]
        d == [k \in ConfigKeys |->
                  IF k \in DOMAIN defaults THEN defaults[k] ELSE base[k]]
    IN IF HasWSLoop
       THEN [host |-> host, port |-> port, ssl |-> use_ssl]
       ELSE d

WSUpdateConfig(config) ==
    /\ cfg_result' =
           [called |-> TRUE, supplied |-> config,
            record |-> UpdateConfigRecord(cfg_result.record, config)]
    /\ UNCHANGED <<host, use_ssl, cp_pc, msgVars, extVars, bytesVars,
                   stopVars, close_result, now, loopVars, connVars,
                   senderVars, queueVars, storeVars, ncalls, resp>>

\* the properties host and port of the worker; 0 stands for None
WorkerHost == IF HasWSLoop THEN host ELSE "None"
WorkerPort == IF HasWSLoop THEN port ELSE 0

(***************************************************************************)
(* MsQueueWorker: the parent process puts {"msg": ..., "target": ...} on   *)
(* the receive queue, "target" being optional; MsgLoop.loop drains it.     *)
(***************************************************************************)
Msgs == {"m1", "m2"}
\* the "target" of an item of the receive queue: the key is absent, or a
\* name
ItemTargets == {"absent", "t"}
\* the target argument of sendmessage and of receive_message
Targets == {"None", "t"}

\* queue_message.get("target")
GetTarget(queue_message) ==
    IF queue_message.target = "absent" THEN "None"
    ELSE queue_message.target

\* A process other than the worker puts an item on the receive queue.
MsgPut(msg, target) ==
    /\ Len(put_log) < MaxPuts
    /\ receive_queue' = Append(receive_queue, [msg |-> msg, target |-> target])
    /\ put_log' = Append(put_log, [msg |-> msg, target |-> target])
    /\ UNCHANGED <<send_queue, msg_pc, msg_result, msg_logged, received,
                   extVars, wsVars>>

\* self._worker.receive_queue.empty()
QueueEmptyNever(q) == FALSE

QueueEmpty(q) == q = <<>>

\* The while loop up to its next suspension: the test, and when the queue
\* is not empty the get() and the call of receive_message with the message
\* and the target of the item.  get() blocks when there is nothing to get.
MsgLoopWhile ==
    IF QueueEmpty(receive_queue)
    THEN /\ msg_pc' = "sleep"
         /\ msg_result' = "ok"
         /\ UNCHANGED <<receive_queue, received>>
    ELSE IF receive_queue = <<>>
    THEN /\ msg_pc' = "blocked"
         /\ msg_result' = "running"
         /\ UNCHANGED <<receive_queue, received>>
    ELSE /\ receive_queue' = Tail(receive_queue)
         /\ received' =
                Append(received, [msg |-> Head(receive_queue).msg,
                                  target |-> GetTarget(Head(receive_queue))])
         /\ msg_pc' = "handle"
         /\ msg_result' = "running"

\* The delay is over: an iteration of MsgLoop.loop starts.
MsgLoopBegin ==
    /\ msg_pc = "sleep"
    /\ MsgLoopWhile
    /\ UNCHANGED <<send_queue, msg_logged, put_log, extVars, wsVars>>

\* receive_message returns: the while loop goes round.
MsgLoopHandled ==
    /\ msg_pc = "handle"
    /\ MsgLoopWhile
    /\ UNCHANGED <<send_queue, msg_logged, put_log, extVars, wsVars>>

\* except Exception: logged, loop() returns; where the loop is then
MsgLoopAfterErrorDies == "dead"

MsgLoopAfterError == "sleep"

\* receive_message raises: the exception is caught and logged, the
\* iteration is over with whatever is left on the queue.
MsgLoopRaises ==
    /\ msg_pc = "handle"
    /\ msg_pc' = MsgLoopAfterError
    /\ msg_result' = "error"
    /\ msg_logged' = msg_logged + 1
    /\ UNCHANGED <<receive_queue, send_queue, put_log, received, extVars,
                   wsVars>>

\* MsQueueWorker.sendmessage(msg, target)
MsgSendMessage(msg, target) ==
    /\ Len(send_queue) < MaxSends
    /\ send_queue' = Append(send_queue, [msg |-> msg, target |-> target])
    /\ UNCHANGED <<receive_queue, msg_pc, msg_result, msg_logged, put_log,
                   received, extVars, wsVars>>

(***************************************************************************)
(* Specifications.  Every one starts from the constructed worker and lets  *)
(* the environment call a part of the handlers.                            *)
(*                                                                         *)
(* Spec: clients, their queues and sender tasks, and sendmessage, once the *)
(* listener is bound on the first port it tries.                           *)
(***************************************************************************)
Next ==
    \/ AssertConnectionBegin
    \/ AssertConnectionSite
    \/ AssertConnectionBound
    \/ \E c \in Conns : Connect(c)
    \/ \E c \in Conns : Disconnect(c)
    \/ \E msg \in Texts, cc \in {0} \cup Conns : SendMessage(msg, cc)
    \/ \E c \in Conns : SenderGet(c)
    \/ \E c \in Conns : SendOk(c)
    \/ \E c \in Conns : SendRaises(c)
    \/ \E c \in Conns : SendTimesOut(c)

Spec == Init /\ [][Next]_vars

(***************************************************************************)
(* StoreSpec: sendmessage to connected clients under the clock and the     *)
(* periodic sweep; the sender tasks do not get to run.                     *)
(***************************************************************************)
NextStore ==
    \/ Tick
    \/ AssertConnectionBegin
    \/ AssertConnectionSite
    \/ AssertConnectionBound
    \/ LoopIteration
    \/ \E c \in Conns : Connect(c)
    \/ \E msg \in Texts, cc \in {0} \cup Conns : SendMessage(msg, cc)

StoreSpec == Init /\ [][NextStore]_vars

(***************************************************************************)
(* SweepSpec: the message store and the whole loop of the WSLoop, ports    *)
(* that are taken included, before any client has connected: sendmessage   *)
(* broadcasts to nobody.                                                   *)
(***************************************************************************)
NextSweep ==
    \/ Tick
    \/ AssertConnectionBegin
    \/ AssertConnectionSite
    \/ AssertConnectionBound
    \/ AssertConnectionRetry
    \/ AssertConnectionExhausted
    \/ LoopIteration
    \/ \E msg \in Texts : SendMessage(msg, 0)
    \/ \E msg_id \in Uuids : HandleGetMessage(msg_id)

SweepSpec == Init /\ [][NextSweep]_vars

(***************************************************************************)
(* BindSpec: the loop of a worker constructed with any port of the range,  *)
(* with ports that may be taken.                                           *)
(***************************************************************************)
InitBind ==
    /\ now = 0
    /\ port \in Ports
    /\ site = NoSite
    /\ runner = "None"
    /\ loop_pc = "sleep"
    /\ listening = 0
    /\ written_config = 0
    /\ tried = {}
    /\ iter_result = "none"
    /\ clients = <<>>
    /\ message_store = [id \in Uuids |-> NoEntry]
    /\ conn = [c \in Conns |-> "none"]
    /\ queue = [c \in Conns |-> <<>>]
    /\ send_pc = [c \in Conns |-> "get"]
    /\ cur = [c \in Conns |-> NoItem]
    /\ inflight = [c \in Conns |-> 0]
    /\ logged = [c \in Conns |-> FALSE]
    /\ offered = [c \in Conns |-> <<>>]
    /\ accepted = [c \in Conns |-> <<>>]
    /\ handed = [c \in Conns |-> <<>>]
    /\ stored_log = [id \in Uuids |-> NoEntry]
    /\ next_uuid = 1
    /\ ncalls = 0
    /\ resp = NoResp
    /\ sb_data = <<>>
    /\ sb_header = <<>>
    /\ chunks = <<>>
    /\ sb_result = "none"
    /\ sb_calls = 0
    /\ stop_pc = "idle"
    /\ stop_idx = 0
    /\ stop_clients = <<>>
    /\ close_sent = {}
    /\ close_result = [c \in Conns |-> "none"]
    /\ workers = [o \in Objs |-> NoWorker]
    /\ RUNNING_WORKERS = [cls \in ClassIds |-> NoDict]
    /\ instances_result = NoInstances
    /\ update_result = NoUpdate
    /\ receive_queue = <<>>
    /\ send_queue = <<>>
    /\ msg_pc = "sleep"
    /\ msg_result = "none"
    /\ msg_logged = 0
    /\ put_log = <<>>
    /\ received = <<>>
    /\ host = DefaultHost
    /\ use_ssl = FALSE
    /\ cp_pc = "idle"
    /\ cfg_result = NoConfigResult

NextBind ==
    \/ Tick
    \/ AssertConnectionBegin
    \/ AssertConnectionSite
    \/ AssertConnectionBound
    \/ AssertConnectionRetry
    \/ AssertConnectionExhausted
    \/ LoopIteration

BindSpec == InitBind /\ [][NextBind]_vars

(***************************************************************************)
(* BytesSpec: one send_bytes call, before or after the listener is bound   *)
(* and clients have connected.                                             *)
(***************************************************************************)
NextBytes ==
    \/ AssertConnectionBegin
    \/ AssertConnectionSite
    \/ AssertConnectionBound
    \/ \E c \in Conns : Connect(c)
    \/ \E data \in Payloads, header \in Headers, cc \in {0} \cup Conns :
          SendBytes(data, header, cc)

BytesSpec == Init /\ [][NextBytes]_vars

(***************************************************************************)
(* StopSpec: the shutdown of the listener among connecting and             *)
(* disconnecting clients, sendmessage calls and the iterations of the      *)
(* loop, which go on until the loop is stopped; the sender tasks do not    *)
(* get to run.                                                             *)
(***************************************************************************)
NextStop ==
    \/ AssertConnectionBegin
    \/ AssertConnectionSite
    \/ AssertConnectionBound
    \/ LoopIteration
    \/ \E c \in Conns : Connect(c)
    \/ \E c \in Conns : Disconnect(c)
    \/ \E msg \in Texts, cc \in {0} \cup Conns : SendMessage(msg, cc)
    \/ StopBegin
    \/ StopCloseDone
    \/ StopSiteStopped
    \/ StopRunnerCleaned

StopSpec == Init /\ [][NextStop]_vars

(***************************************************************************)
(* CloseSpec: connections that are written to, drained, left by their      *)
(* peer, and on which close() is called.                                   *)
(***************************************************************************)
NextClose ==
    \/ AssertConnectionBegin
    \/ AssertConnectionSite
    \/ AssertConnectionBound
    \/ \E c \in Conns : Connect(c)
    \/ \E c \in Conns : Disconnect(c)
    \/ \E msg \in Texts, cc \in {0} \cup Conns : SendMessage(msg, cc)
    \/ \E c \in Conns : SenderGet(c)
    \/ \E c \in Conns : SendOk(c)
    \/ \E c \in Conns : Close(c)

CloseSpec == Init /\ [][NextClose]_vars

(***************************************************************************)
(* RouteSpec: sendmessage and send_bytes, to one recipient and to all,     *)
(* among clients that connect and disconnect; the sender tasks do not get  *)
(* to run.                                                                 *)
(***************************************************************************)
RoutePayloads == {<<120>>, <<120, 120, 120, 120>>}

NextRoute ==
    \/ AssertConnectionBegin
    \/ AssertConnectionSite
    \/ AssertConnectionBound
    \/ \E c \in Conns : Connect(c)
    \/ \E c \in Conns : Disconnect(c)
    \/ \E msg \in Texts, cc \in {0} \cup Conns : SendMessage(msg, cc)
    \/ \E data \in RoutePayloads, cc \in {0} \cup Conns :
          SendBytes(data, <<>>, cc)

RouteSpec == Init /\ [][NextRoute]_vars

(***************************************************************************)
(* ChunkSpec: clients that come and go, broadcasts of a short text, two    *)
(* send_bytes calls, and the sender task of the first client, which drains *)
(* its queue while the queue of the second fills.                          *)
(***************************************************************************)
NextChunk ==
    \/ AssertConnectionBegin
    \/ AssertConnectionSite
    \/ AssertConnectionBound
    \/ \E c \in Conns : Connect(c)
    \/ \E c \in Conns : Disconnect(c)
    \/ SendMessage(<<97>>, 0)
    \/ \E data \in RoutePayloads, cc \in {0} \cup Conns :
          SendBytes(data, <<>>, cc)
    \/ \E data \in RoutePayloads : SendBytesAgain(data, <<>>, 0)
    \/ SenderGet(1)
    \/ SendOk(1)

ChunkSpec == Init /\ [][NextChunk]_vars

(***************************************************************************)
(* RegistrySpec: external workers that are constructed without a config,   *)
(* started, stopped, given up by their owner and reclaimed, and            *)
(* running_instances.  ConfigSpec: external workers and update_config.     *)
(***************************************************************************)
NoConfig == [none |-> TRUE, dict |-> [f \in Fields |-> Unset]]

NextRegistry ==
    \/ \E cls \in ClassIds, workerid \in WorkerIds :
          Construct(cls, workerid, NoConfig, FALSE)
    \/ \E o \in Objs : Start(o)
    \/ \E o \in Objs : Stop(o, "nothing")
    \/ \E o \in Objs : Release(o)
    \/ \E o \in Objs : Collect(o)
    \/ \E cls \in ClassIds : QueryRunningInstances(cls)

RegistrySpec == Init /\ [][NextRegistry]_vars

NextConfig ==
    \/ \E arg \in ConfigArgs, hook_fails \in BOOLEAN :
          Construct("X", "w1", arg, hook_fails)
    \/ \E o \in Objs, arg \in ConfigArgs, hook_fails \in BOOLEAN :
          UpdateConfig(o, arg, hook_fails)

ConfigSpec == Init /\ [][NextConfig]_vars

(***************************************************************************)
(* WSConfigSpec: a worker constructed with any host and port of the range, *)
(* its loop binding, change_port and update_config calls.                  *)
(***************************************************************************)
InitConfig ==
    /\ now = 0
    /\ port \in Ports
    /\ site = NoSite
    /\ runner = "None"
    /\ loop_pc = "sleep"
    /\ listening = 0
    /\ written_config = 0
    /\ tried = {}
    /\ iter_result = "none"
    /\ clients = <<>>
    /\ message_store = [id \in Uuids |-> NoEntry]
    /\ conn = [c \in Conns |-> "none"]
    /\ queue = [c \in Conns |-> <<>>]
    /\ send_pc = [c \in Conns |-> "get"]
    /\ cur = [c \in Conns |-> NoItem]
    /\ inflight = [c \in Conns |-> 0]
    /\ logged = [c \in Conns |-> FALSE]
    /\ offered = [c \in Conns |-> <<>>]
    /\ accepted = [c \in Conns |-> <<>>]
    /\ handed = [c \in Conns |-> <<>>]
    /\ stored_log = [id \in Uuids |-> NoEntry]
    /\ next_uuid = 1
    /\ ncalls = 0
    /\ resp = NoResp
    /\ sb_data = <<>>
    /\ sb_header = <<>>
    /\ chunks = <<>>
    /\ sb_result = "none"
    /\ sb_calls = 0
    /\ stop_pc = "idle"
    /\ stop_idx = 0
    /\ stop_clients = <<>>
    /\ close_sent = {}
    /\ close_result = [c \in Conns |-> "none"]
    /\ workers = [o \in Objs |-> NoWorker]
    /\ RUNNING_WORKERS = [cls \in ClassIds |-> NoDict]
    /\ instances_result = NoInstances
    /\ update_result = NoUpdate
    /\ receive_queue = <<>>
    /\ send_queue = <<>>
    /\ msg_pc = "sleep"
    /\ msg_result = "none"
    /\ msg_logged = 0
    /\ put_log = <<>>
    /\ received = <<>>
    /\ host \in Hosts
    /\ use_ssl = FALSE
    /\ cp_pc = "idle"
    /\ cfg_result = NoConfigResult

NextWSConfig ==
    \/ AssertConnectionBegin
    \/ AssertConnectionSite
    \/ AssertConnectionBound
    \/ AssertConnectionRetry
    \/ AssertConnectionExhausted
    \/ LoopIteration
    \/ \E p \in {0, ENDPORT} : ChangePortBegin(p)
    \/ ChangePortSiteStopped
    \/ ChangePortRunnerCleaned
    \/ \E config \in SuppliedConfigs : WSUpdateConfig(config)

WSConfigSpec == InitConfig /\ [][NextWSConfig]_vars

(***************************************************************************)
(* MsgSpec: the queue worker, its loop, the process at the other end of    *)
(* the queues.  LoopsSpec: a WSLoop that binds and sweeps and a MsgLoop,   *)
(* each run by its own CustomLoop task.                                    *)
(***************************************************************************)
NextMsg ==
    \/ \E msg \in Msgs, target \in ItemTargets : MsgPut(msg, target)
    \/ MsgLoopBegin
    \/ MsgLoopHandled
    \/ MsgLoopRaises
    \/ \E msg \in Msgs, target \in Targets : MsgSendMessage(msg, target)

MsgSpec == Init /\ [][NextMsg]_vars

NextLoops ==
    \/ AssertConnectionBegin
    \/ AssertConnectionSite
    \/ AssertConnectionBound
    \/ AssertConnectionRetry
    \/ AssertConnectionExhausted
    \/ LoopIteration
    \/ \E target \in ItemTargets : MsgPut("m1", target)
    \/ MsgLoopBegin
    \/ MsgLoopHandled
    \/ MsgLoopRaises

LoopsSpec == InitBind /\ [][NextLoops]_vars

\* Each loop is a task of the event loop, which resumes a task whose sleep
\* or await is over; what a loop awaits (receive_message, runner.setup,
\* site.start) ends.
FairMsgLoop ==
    /\ WF_vars(MsgLoopBegin)
    /\ WF_vars(MsgLoopHandled \/ MsgLoopRaises)

FairWSLoop ==
    /\ WF_vars(AssertConnectionBegin)
    /\ WF_vars(AssertConnectionSite)
    /\ WF_vars(AssertConnectionBound \/ AssertConnectionRetry
                   \/ AssertConnectionExhausted)
    /\ WF_vars(LoopIteration)

FairMsgSpec == MsgSpec /\ FairMsgLoop

FairLoopsSpec == LoopsSpec /\ FairMsgLoop /\ FairWSLoop

\* An instance nothing but the registry refers to is reclaimed: by the
\* reference count at once, by the cycle collector at its next run.
FairRegistrySpec ==
    RegistrySpec /\ \A o \in Objs : WF_vars(Collect(o))

(***************************************************************************)
(* ExtStopSpec: external workers of one class that are started and         *)
(* stopped, the listeners of "stopping" and cleanup raising or not.        *)
(***************************************************************************)
StopRaises == {"nothing", "emit", "cleanup"}

NextExtStop ==
    \/ \E workerid \in WorkerIds : Construct("X", workerid, NoConfig, FALSE)
    \/ \E o \in Objs : Start(o)
    \/ \E o \in Objs, raises \in StopRaises : Stop(o, raises)
    \/ QueryRunningInstances("X")

ExtStopSpec == Init /\ [][NextExtStop]_vars

(***************************************************************************)
(* Fairness.  The event loop runs every task that is ready, a send ends    *)
(* (it returns, raises, or is cut off by the 2 s timeout of wait_for),     *)
(* the loop of the WSLoop is rescheduled after its delay, and time passes. *)
(***************************************************************************)
FairSpec ==
    /\ Spec
    /\ \A c \in Conns : WF_vars(SenderGet(c))
    /\ \A c \in Conns : WF_vars(SendOk(c) \/ SendRaises(c) \/ SendTimesOut(c))

FairSweepSpec ==
    /\ SweepSpec
    /\ WF_vars(Tick)
    /\ WF_vars(AssertConnectionBegin)
    /\ WF_vars(AssertConnectionSite)
    /\ WF_vars(AssertConnectionBound \/ AssertConnectionRetry
                   \/ AssertConnectionExhausted)
    /\ WF_vars(LoopIteration)

(***************************************************************************)
(* Properties.                                                             *)
(***************************************************************************)
FirstN(s, n) == SubSeq(s, 1, IF Len(s) < n THEN Len(s) ELSE n)
Last(s) == s[Len(s)]

\* C1: the queue of a ClientConnection never holds more than its capacity,
\* and as long as the sender task has taken nothing off it, it holds exactly
\* the first QueueMaxsize items that were passed to enqueue, in their order:
\* an enqueue on a full queue drops its own item and changes nothing.
C1_QueueNeverExceedsCapacity ==
    \A c \in Conns :
        /\ Len(queue[c]) <= QueueMaxsize
        /\ handed[c] = <<>> => queue[c] = FirstN(offered[c], QueueMaxsize)

\* One more enqueue than the capacity, before any drain.
C1_Witness ==
    \E c \in Conns :
        /\ handed[c] = <<>>
        /\ Len(offered[c]) = QueueMaxsize + 1
        /\ Len(queue[c]) = QueueMaxsize
        /\ offered[c][1] # offered[c][QueueMaxsize + 1]

\* C2: the items the sender task of a connection has taken off the queue,
\* followed by those still on it, are the accepted items in the order of
\* their acceptance; at most one send is under way, and it is the send of
\* the item taken last (every earlier send has ended).
C2_SentInEnqueueOrder ==
    \A c \in Conns :
        /\ handed[c] \o queue[c] = accepted[c]
        /\ inflight[c] <= 1
        /\ inflight[c] = 1 => handed[c] # <<>> /\ cur[c] = Last(handed[c])

\* Two different items handed over in order, a third one waiting.
C2_Witness ==
    \E c \in Conns :
        /\ Len(handed[c]) = 2
        /\ handed[c][1] # handed[c][2]
        /\ queue[c] # <<>>
        /\ inflight[c] = 1

\* C3: whatever sends raise or time out, on whichever connection, the n-th
\* item accepted by a connection is eventually taken by its sender task
\* and handed to its websocket.
C3_FailedSendStopsNothing ==
    \A c \in Conns : \A n \in 1..MaxCalls :
        (Len(accepted[c]) >= n) ~> (Len(handed[c]) >= n)

\* A send on connection 1 failed and its sender task is sending a later
\* item; connection 2 has sent an item without any error.
C3_Witness ==
    /\ logged[1]
    /\ send_pc[1] = "send"
    /\ ~logged[2]
    /\ handed[2] # <<>>
    /\ send_pc[2] = "get"

\* C4: every item a sendmessage call passes to enqueue is either the text
\* itself, of an encoded size not above MESSAGE_SIZE_BEFORE_REQUEST, or the
\* pointer of a large message whose msg_id was not in use before the call
\* and under which the store holds, after the call, the text of the call
\* with the time of the call; and a text above the threshold is stored in
\* this way also when nobody is there to receive the pointer.
C4_Step ==
    /\ \A c \in Conns :
          Len(offered'[c]) > Len(offered[c]) =>
              LET item == Last(offered'[c])
              IN IF item.kind = "large_message"
                 THEN /\ stored_log[item.msg_id] = NoEntry
                      /\ ~InStore(message_store, item.msg_id)
                      /\ stored_log'[item.msg_id] # NoEntry
                      /\ Utf8Len(stored_log'[item.msg_id].msg)
                             > MESSAGE_SIZE_BEFORE_REQUEST
                      /\ message_store'[item.msg_id] =
                             [msg |-> stored_log'[item.msg_id].msg,
                              timestamp |-> now]
                 ELSE /\ item.kind = "str"
                      /\ Utf8Len(item.body) <= MESSAGE_SIZE_BEFORE_REQUEST
    /\ \A id \in Uuids :
          stored_log'[id] # stored_log[id] =>
              /\ message_store'[id] = stored_log'[id]
              /\ stored_log'[id].timestamp = now

C4_LargeTextNeverVerbatim == [][C4_Step]_vars

\* A large message sent at a later time than 0 whose pointer went to every
\* one of two connected clients.
C4_Witness ==
    \E id \in Uuids :
        /\ InStore(message_store, id)
        /\ message_store[id].timestamp > 0
        /\ Len(clients) = 2
        /\ \A c \in Conns :
              offered[c] # <<>> /\ Last(offered[c]).kind = "large_message"
                                /\ Last(offered[c]).msg_id = id

\* C5: a GET for a message that was stored less than 60 s ago answers 200
\* with the text that was given to sendmessage.
C5_RetrievableBeforeTimeout ==
    \A id \in Uuids :
        (/\ stored_log[id] # NoEntry
         /\ now - stored_log[id].timestamp < LARGE_MESSAGE_MEMORY_TIMEOUT)
        => GetMessageResponse(message_store, id) =
               [id |-> id, status |-> 200, text |-> stored_log[id].msg]

\* A GET answered 200 for a message stored 30 s ago, after a sweep that
\* removed an older message.
C5_Witness ==
    /\ resp.status = 200
    /\ stored_log[resp.id] # NoEntry
    /\ resp.text = stored_log[resp.id].msg
    /\ now - stored_log[resp.id].timestamp = 30
    /\ \E old \in Uuids :
          stored_log[old] # NoEntry /\ ~InStore(message_store, old)

\* C6: a GET for a message that was stored more than 60 s ago answers 404.
C6_NotFoundAfterTimeout ==
    \A id \in Uuids :
        (/\ listening # 0
         /\ stored_log[id] # NoEntry
         /\ now - stored_log[id].timestamp > LARGE_MESSAGE_MEMORY_TIMEOUT)
        => GetMessageResponse(message_store, id).status = 404

\* C7: a sweep removes exactly the entries older than 60 s, and every entry
\* (that is stored early enough to grow older than 60 s before the clock of
\* the model stops) is removed in the end.
C7_SweepStep ==
    (LoopIteration \/ AssertConnectionBound) =>
        \A id \in Uuids :
            message_store'[id] =
                IF /\ InStore(message_store, id)
                   /\ now - message_store[id].timestamp
                          > LARGE_MESSAGE_MEMORY_TIMEOUT
                THEN NoEntry
                ELSE message_store[id]

C7_SweepPurgesEveryEntry ==
    /\ [][C7_SweepStep]_vars
    /\ \A id \in Uuids :
          (/\ InStore(message_store, id)
           /\ message_store[id].timestamp + LARGE_MESSAGE_MEMORY_TIMEOUT
                  + TickStep <= MaxTime)
          ~> ~InStore(message_store, id)

\* An entry has been removed while another, exactly 60 s old, is kept.
C7_Witness ==
    \E old, young \in Uuids :
        /\ stored_log[old] # NoEntry
        /\ ~InStore(message_store, old)
        /\ InStore(message_store, young)
        /\ now - message_store[young].timestamp = LARGE_MESSAGE_MEMORY_TIMEOUT

\* C10: "No free ports available" is raised only when every port of the
\* range has been tried.
C10_FailsOnlyAfterWholeRange ==
    iter_result = "No free ports available" => tried = Ports

(***************************************************************************)
(* The receiver of chunks: "chunk=<number>/<total>;msgid=<id>;" + header   *)
(* + blank line + payload.                                                 *)
(***************************************************************************)
RECURSIVE ParseDec(_)
ParseDec(digits) ==
    IF digits = <<>> THEN 0
    ELSE ParseDec(SubSeq(digits, 1, Len(digits) - 1)) * 10
             + (digits[Len(digits)] - 48)

\* index of the first byte b of chunk at or after from
FirstIndex(chunk, b, from) ==
    CHOOSE i \in from..Len(chunk) :
        chunk[i] = b /\ \A j \in from..(i - 1) : chunk[j] # b

SeparatorAt(chunk, i) ==
    /\ chunk[i] = 13 /\ chunk[i + 1] = 10
    /\ chunk[i + 2] = 13 /\ chunk[i + 3] = 10

ChunkNumber(chunk) == ParseDec(SubSeq(chunk, 7, FirstIndex(chunk, 47, 7) - 1))

ChunkTotal(chunk) ==
    LET slash == FirstIndex(chunk, 47, 7)
    IN ParseDec(SubSeq(chunk, slash + 1, FirstIndex(chunk, 59, slash) - 1))

ChunkMsgid(chunk) ==
    LET semi == FirstIndex(chunk, 59, 7) IN SubSeq(chunk, semi + 7, semi + 42)

\* the bytes after the first blank line
ChunkPayload(chunk) ==
    LET sep == CHOOSE i \in 1..(Len(chunk) - 3) :
                   SeparatorAt(chunk, i)
                       /\ \A j \in 1..(i - 1) : ~SeparatorAt(chunk, j)
    IN SubSeq(chunk, sep + 4, Len(chunk))

RECURSIVE ConcatPayloads(_, _, _)
ConcatPayloads(cs, lo, hi) ==
    IF lo > hi THEN <<>>
    ELSE IF lo = hi THEN ChunkPayload(cs[lo])
    ELSE ConcatPayloads(cs, lo, (lo + hi) \div 2)
             \o ConcatPayloads(cs, (lo + hi) \div 2 + 1, hi)

\* C8: the chunks of a call carry one message id, the total, and the
\* numbers 1, 2, ... in the order of production, so that ordering them by
\* ascending number gives that order; and the payloads after the blank
\* line, concatenated in that order, are the data of the call.
C8_ReassemblyRestoresPayload ==
    (sb_result = "returned" /\ sb_data # <<>>) =>
        /\ chunks # <<>>
        /\ \A k \in DOMAIN chunks :
              /\ ChunkNumber(chunks[k]) = k
              /\ ChunkTotal(chunks[k]) = Len(chunks)
              /\ ChunkMsgid(chunks[k]) = ChunkMsgid(chunks[1])
        /\ ConcatPayloads(chunks, 1, Len(chunks)) = sb_data

\* A payload that is itself a blank line, sent with an empty header to a
\* connected client in two chunks of three bytes and of one.
C8_Witness ==
    /\ sb_result = "returned"
    /\ sb_data = <<13, 10, 13, 10>>
    /\ sb_header = <<>>
    /\ Len(chunks) = 2
    /\ ChunkPayload(chunks[1]) = <<13, 10, 13>>
    /\ ChunkPayload(chunks[2]) = <<10>>
    /\ \E c \in Conns : queue[c] = <<Bytes(chunks[1]), Bytes(chunks[2])>>

\* C9: no chunk is longer than MAX_DATA_SIZE, and a call that raised
\* "Header too large" made no chunk and passed nothing to enqueue.
C9_ChunksFitMaxDataSize ==
    /\ \A k \in DOMAIN chunks : Len(chunks[k]) <= MAX_DATA_SIZE
    /\ sb_result = "Header too large" =>
          /\ chunks = <<>>
          /\ \A c \in Conns : offered[c] = <<>>

\* C11: a bind that succeeds after k failures of the same _assert_connection
\* call binds the port start + k, where start is the port the call began
\* with; the port the worker reports and the port of the config record
\* written at that moment are that port; and the config record is written
\* in the step in which a bind succeeds and in no other.
C11_Step ==
    /\ listening' # listening =>
          LET start == CHOOSE p \in tried : \A q \in tried : p <= q
              k == Cardinality(tried) - 1
          IN /\ listening' = start + k
             /\ port' = listening'
             /\ written_config' = listening'
    /\ written_config' # written_config => listening' # listening

C11_ConfigNamesBoundPort == [][C11_Step]_vars

\* Three ports taken, the fourth bound: the spec's scenario.
C11_Witness ==
    /\ Cardinality(tried) = 4
    /\ listening = STARTPORT + 3
    /\ written_config = listening
    /\ port = listening

\* C12: when stop has completed, every client that was connected when it
\* began has its websocket closed: stop has called ws.close() on it, or
\* (which is more than the claim grants) the client has gone by itself.
C12_StopClosesEveryClient ==
    stop_pc = "stopped" =>
        \A c \in Range(stop_clients) : c \in close_sent \/ conn[c] = "closed"

\* C13: in the step in which stop completes and the loop becomes stopped,
\* the message store is empty, site and runner are unset and no listener is
\* bound.
C13_Step ==
    (stop_pc # "stopped" /\ stop_pc' = "stopped") =>
        /\ message_store' = EmptyStore
        /\ site' = NoSite
        /\ runner' = "None"
        /\ listening' = 0

C13_StoppedLeavesNothing == [][C13_Step]_vars

\* C14: when stop has completed, the sender task of every ClientConnection
\* that was made is done.
C14_StoppedSendersDone ==
    stop_pc = "stopped" =>
        \A c \in Conns : conn[c] # "none" => send_pc[c] = "done"

\* C15: every call of close() on a ClientConnection returns, and after it
\* the sender task of the connection is done and its queue is empty.
C15_CloseEndsSender ==
    \A c \in Conns :
        close_result[c] # "none" =>
            /\ close_result[c] = "returned"
            /\ send_pc[c] = "done"
            /\ queue[c] = <<>>

\* C16: on a connection that has been closed (close() was called on it, or
\* its websocket has closed and its handler has ended) an enqueue is a
\* no-op: no step puts an item on its queue.
Closed(c) == close_result[c] # "none" \/ conn[c] = "closed"

C16_Step == \A c \in Conns : Closed(c) => accepted'[c] = accepted[c]

C16_EnqueueAfterCloseIsNoop == [][C16_Step]_vars

\* C17: a sendmessage call with a non-empty text, and a send_bytes call
\* with non-empty data and an accepted header, passes its items (one
\* message, or the chunks in their order) to enqueue on the recipient's
\* connection when there is a recipient and on every client of the client
\* list of that moment when there is none, the same items on each; each of
\* these queues takes the items it has room for, and the queue of every
\* other connection is left as it was.
Routed(cc, items) ==
    LET to == IF cc # 0 THEN {cc} ELSE Range(clients)
    IN \A c \in Conns :
          IF c \in to
          THEN /\ offered'[c] = offered[c] \o items
               /\ queue'[c] = FirstN(queue[c] \o items, QueueMaxsize)
          ELSE /\ offered'[c] = offered[c]
               /\ queue'[c] = queue[c]

C17_Step ==
    /\ \A msg \in Texts \ {<<>>}, cc \in {0} \cup Conns :
          SendMessage(msg, cc) =>
              \E item \in {Str(msg), LargeMessagePointer(next_uuid, port)} :
                  Routed(cc, <<item>>)
    /\ (sb_result = "none" /\ sb_result' = "returned" /\ sb_data' # <<>>) =>
          \A cc \in {0} \cup Conns :
              SendBytes(sb_data', sb_header', cc) =>
                  Routed(cc, [i \in 1..Len(chunks') |-> Bytes(chunks'[i])])

C17_OnlyToRecipientOrToAll == [][C17_Step]_vars

\* Two clients; one message went to the first alone and one to both, and
\* the chunks of a send_bytes call went to the second alone.
C17_Witness ==
    /\ Len(clients) = 2
    /\ Len(chunks) = 2
    /\ Len(offered[1]) = 2
    /\ offered[1][1] # offered[1][2]
    /\ offered[2] = <<offered[1][2], Bytes(chunks[1]), Bytes(chunks[2])>>

(***************************************************************************)
(* External workers: registry and config.                                  *)
(***************************************************************************)
\* The instance is in the registry: it exists and no instance constructed
\* after it took its class id and uuid.
Registered(o) ==
    /\ workers[o].state = "alive"
    /\ \A p \in Objs :
          p > o /\ workers[p].state # "none"
              => workers[p].cls # workers[o].cls
                     \/ workers[p].uuid # workers[o].uuid

Unowned(o) == workers[o].state = "alive" /\ ~workers[o].owned

Gone(o) ==
    /\ workers[o].state = "collected"
    /\ \A cls \in ClassIds :
          /\ o \notin Values(RUNNING_WORKERS[cls])
          /\ o \notin RunningInstances(cls)

\* C18: the registry never keeps an instance alive: an instance that has
\* lost its last owner outside the registry is eventually reclaimed, its
\* entry leaves the registry without any explicit removal, and from then on
\* running_instances of no class reports it, so that of two registered
\* instances of one class only the other is reported.
C18_UnownedInstanceLeavesRegistry ==
    \A o \in Objs : Unowned(o) ~> Gone(o)

\* Two instances of class "X" were registered and running, one lost its
\* owner and is gone, running_instances("X") was asked and reported only
\* the other.
C18_Witness ==
    \E o \in Objs, p \in Objs :
        /\ o # p
        /\ workers[o].cls = "X" /\ workers[p].cls = "X"
        /\ workers[o].uuid # workers[p].uuid
        /\ Gone(o)
        /\ Registered(p) /\ workers[p].running
        /\ instances_result = [cls |-> "X", res |-> {p}]
        /\ RunningInstances("X") = {p}

\* What running_instances of a class has to return.
ExpectedInstances(cls) ==
    {o \in Objs : Registered(o) /\ workers[o].cls = cls
                      /\ workers[o].running}

C19_Step ==
    /\ \A o \in Objs :
          workers[o].state = "none" /\ workers'[o].state = "alive"
              => /\ RUNNING_WORKERS'[workers'[o].cls].present
                 /\ RUNNING_WORKERS'[workers'[o].cls]
                        .data[workers'[o].uuid] = o
    /\ \A cls \in ClassIds :
          QueryRunningInstances(cls)
              => instances_result'.res = ExpectedInstances(cls)

\* C19: a constructed external worker is registered under its class id and
\* its uuid, and running_instances of a class returns exactly the
\* registered instances of that class id that still exist and are running:
\* none of another class id, none stopped, none not yet started, and
\* nothing for a class without registered instance.
C19_RunningInstancesExact == [][C19_Step]_vars

\* running_instances("X") reported one instance while another instance of
\* "X" existed that was not running and a running instance of "Y" existed,
\* and running_instances of a class nothing registered for is empty.
C19_Witness ==
    /\ instances_result.cls = "X"
    /\ Cardinality(instances_result.res) = 1
    /\ instances_result.res = ExpectedInstances("X")
    /\ \E o \in Objs :
          Registered(o) /\ workers[o].cls = "X" /\ ~workers[o].running
    /\ \E o \in Objs :
          Registered(o) /\ workers[o].cls = "Y" /\ workers[o].running

\* C20: an update_config whose merged record fails validation, or whose
\* post-update hook fails, leaves the config of the instance as it was
\* before the call; a successful one sets each supplied field and keeps
\* every other field.
C20_FailedUpdateKeepsConfig ==
    update_result.obj # 0 =>
        LET config == workers[update_result.obj].config
        IN /\ update_result.result \in {"ValidationError", "HookError"}
                  => config = update_result.before
           /\ update_result.result = "ok"
                  => config = Merge(update_result.before,
                                    update_result.supplied)

\* C21: an update_config on an external worker with an invalid field does
\* not raise past its caller, neither when the constructor makes the call
\* nor when it is made later on a live instance.
C21_InvalidUpdateDoesNotRaise ==
    update_result.result = "ValidationError" => ~update_result.raised

\* C25: whenever site is set when an iteration of the loop starts, so that
\* _assert_connection returns without binding, a listener is bound on the
\* loop's host and port; after a failed bind, the exhausted range included,
\* site is not set and the next iteration binds again.
C25_SiteSetMeansListening ==
    loop_pc = "sleep" /\ site # NoSite
        => site.started /\ site.port = port /\ listening = port

(***************************************************************************)
(* Loops: exceptions in an iteration, and the queue worker.                *)
(***************************************************************************)
\* The iteration of the MsgLoop, or of the WSLoop, ended with an exception.
MsgLoopFailed == msg_result = "error"
WSLoopFailed == iter_result = "No free ports available"

C22_Step ==
    /\ msg_logged' # msg_logged
          => /\ msg_logged' = msg_logged + 1
             /\ msg_result' = "error"
             /\ UNCHANGED <<loop_pc, iter_result>>
    /\ msg_result' = "error" /\ msg_result # "error"
          => msg_logged' = msg_logged + 1
    /\ WSLoopFailed' /\ ~WSLoopFailed => UNCHANGED <<msg_pc, msg_result>>

ExpectedCall(item) ==
    [msg |-> item.msg,
     target |-> IF item.target = "absent" THEN "None" ELSE item.target]

\* Every item put is on the queue or was passed to receive_message, once,
\* in the order of the queue, with its target; get() is never called on an
\* empty queue.
C23_Inv ==
    /\ Len(received) + Len(receive_queue) = Len(put_log)
    /\ \A i \in 1..Len(received) : received[i] = ExpectedCall(put_log[i])
    /\ \A i \in 1..Len(receive_queue) :
          receive_queue[i] = put_log[Len(received) + i]
    /\ msg_pc # "blocked"

\* An iteration that ends normally leaves nothing on the queue, and a
\* sendmessage puts one item of its msg and target at the end of the send
\* queue.
C23_Step ==
    /\ msg_pc # msg_pc' /\ msg_pc' = "sleep" /\ msg_result' = "ok"
          => receive_queue' = <<>>
    /\ send_queue' # send_queue
          => \E msg \in Msgs, target \in Targets :
                /\ MsgSendMessage(msg, target)
                /\ Len(send_queue') = Len(send_queue) + 1
                /\ send_queue'[Len(send_queue')] =
                       [msg |-> msg, target |-> target]
                /\ SubSeq(send_queue', 1, Len(send_queue)) = send_queue

MsgidsIn(s) ==
    {ChunkMsgid(s[i].body) : i \in {j \in DOMAIN s : s[j].kind = "bytes"}}

ChunkPositions(s, m) ==
    {i \in DOMAIN s : s[i].kind = "bytes" /\ ChunkMsgid(s[i].body) = m}

\* In what a connection's queue was given, the chunks of one message are
\* next to each other, numbered 1, 2, ... in this order, with one total.
C26_Inv ==
    /\ \A c \in Conns : \A m \in MsgidsIn(accepted[c]) :
          LET pos == ChunkPositions(accepted[c], m)
              first == CHOOSE i \in pos : \A j \in pos : i <= j
              k == Cardinality(pos)
          IN /\ pos = first..(first + k - 1)
             /\ \A j \in 1..k :
                   /\ ChunkNumber(accepted[c][first + j - 1].body) = j
                   /\ ChunkTotal(accepted[c][first + j - 1].body)
                          = ChunkTotal(accepted[c][first].body)
             /\ k <= ChunkTotal(accepted[c][first].body)
    /\ sb_result = "returned" /\ sb_data # <<>>
          => LET size == Len(ChunkPayload(chunks[1]))
             IN \A k \in DOMAIN chunks :
                   ChunkTotal(chunks[k]) = (Len(sb_data) + size - 1) \div size

\* A send_bytes call changes no client list, gives each recipient the
\* chunks 1..n as one block at the end of its queue (as many of them as the
\* queue has room for) and nothing to anyone else.
C26_Step ==
    sb_calls' # sb_calls /\ sb_result' = "returned" /\ sb_data' # <<>>
        => /\ clients' = clients
           /\ \A c \in Conns :
                 LET new == SubSeq(accepted'[c], Len(accepted[c]) + 1,
                                   Len(accepted'[c]))
                     room == QueueMaxsize - Len(queue[c])
                     n == Len(chunks')
                 IN /\ queue'[c] = queue[c] \o new
                    /\ accepted'[c] = accepted[c] \o new
                    /\ Len(new) \in {0, IF n < room THEN n ELSE room}
                    /\ \A j \in 1..Len(new) : new[j] = Bytes(chunks'[j])

IsPrefix(s, t) == Len(s) <= Len(t) /\ s = SubSeq(t, 1, Len(s))

C24_Order == <<"stopping", "cleanup", "stop">>

\* the event has been emitted and cleanup has run, in this order
EmittedAndCleaned(log) ==
    Len(log) >= 2 /\ log[1] = "stopping" /\ log[2] = "cleanup"

C24_Step ==
    \A o \in Objs :
        /\ workers'[o].stop_log # workers[o].stop_log
              => IsPrefix(workers'[o].stop_log, C24_Order)
        /\ workers[o].running /\ ~workers'[o].running
              => /\ EmittedAndCleaned(workers'[o].stop_log)
                 /\ workers'[o].stop_log = C24_Order
        /\ workers'[o].running => workers'[o].stop_log # C24_Order
        /\ \A cls \in ClassIds :
              (o \in RunningInstances(cls) /\ Registered(o)'
                  /\ o \notin RunningInstances(cls)')
                  => EmittedAndCleaned(workers'[o].stop_log)

\* C24: stopping an external worker performs the "stopping" event, the
\* cleanup and the base stop in this order, and the instance is not reported
\* as stopped (running false, absent from running_instances) before the
\* event has been emitted and cleanup has run.
C24_StopOrder == [][C24_Step]_vars

\* One instance was stopped and is no longer reported; the stop of another
\* ended in its cleanup, and that one is still reported as running.
C24_Witness ==
    \E o \in Objs, p \in Objs :
        /\ workers[o].stop_log = C24_Order
        /\ ~workers[o].running
        /\ workers[p].stop_log = <<"stopping", "cleanup">>
        /\ workers[p].running
        /\ Registered(o) /\ Registered(p)
        /\ instances_result = [cls |-> "X", res |-> {p}]

(***************************************************************************)
(* The config record and the host and port of a WSWorker.                  *)
(***************************************************************************)
C27_Step ==
    cfg_result' # cfg_result
        => /\ cfg_result'.record.host = host'
           /\ cfg_result'.record.port = port'
           /\ cfg_result'.record.ssl = use_ssl'

\* C27: once the loop of the worker exists, every record WSWorker
\* .update_config returns has the host, port and ssl of the loop, whatever
\* the supplied config holds for them, and the host and port of the worker
\* are those of the loop at every moment, after change_port included.
C27_ConfigFollowsLoop ==
    /\ [](WorkerHost = host /\ WorkerPort = port)
    /\ [][C27_Step]_vars

\* change_port has moved the loop to another port, nothing is bound there
\* yet, and an update_config that supplied host, port and ssl returned the
\* loop's values, none of the supplied ones.
C27_Witness ==
    /\ cfg_result.called
    /\ cfg_result.supplied.has = ConfigKeys
    /\ cfg_result.record = [host |-> host, port |-> port, ssl |-> use_ssl]
    /\ host # DefaultHost
    /\ port # STARTPORT
    /\ written_config # 0 /\ written_config # port
    /\ cp_pc = "idle" /\ site = NoSite
    /\ WorkerPort = port

(***************************************************************************)
(* The client list.                                                        *)
(***************************************************************************)
Occurrences(s, x) == Cardinality({i \in DOMAIN s : s[i] = x})

\* A connection is in clients, once, exactly while its handshake is done
\* and its handler has not ended.
C28_Inv ==
    \A c \in Conns :
        /\ Occurrences(clients, c) <= 1
        /\ Occurrences(clients, c) = 1 <=> conn[c] = "open"

\* A broadcast gives nothing to a connection whose handler has ended.
C28_Step ==
    /\ \A msg \in Texts : SendMessage(msg, 0)
          => \A c \in Conns : conn[c] # "open" => offered'[c] = offered[c]
    /\ \A data \in RoutePayloads : SendBytes(data, <<>>, 0)
          => \A c \in Conns : conn[c] # "open" => offered'[c] = offered[c]

\* C28: a ClientConnection is in WSLoop.clients exactly from the end of its
\* handshake to the end of its connection handler, and at most once; a
\* broadcast sendmessage or send_bytes never enqueues to a connection whose
\* handler has ended.
C28_ClientsAreTheOpenConnections == []C28_Inv /\ [][C28_Step]_vars

\* The first client has gone and the second is the only one in the list;
\* texts and the chunks of a binary message were then given to the second
\* and not to the first.
C28_Witness ==
    /\ conn[1] = "closed" /\ conn[2] = "open"
    /\ clients = <<2>>
    /\ Len(offered[1]) = 1
    /\ Len(chunks) = 2
    /\ Len(offered[2]) = 4
    /\ offered[2][1] = offered[1][1]
    /\ offered[2][2].kind = "str"
    /\ offered[2][3] = Bytes(chunks[1])
    /\ offered[2][4] = Bytes(chunks[2])

====
